---- MODULE Spec2Model ----
(***************************************************************************)
(* Process-monitor session of ratatui-learning: the App state of           *)
(* src/src/app.rs and the input/render loop run_app of src/src/ui.rs.      *)
(*                                                                         *)
(* Strings are sequences of one-character strings.  Option values are      *)
(* sequences of length at most one: None is <<>> and Some(x) is <<x>>.     *)
(* Indices are 0-based as in the code, so processes[i] of the code is      *)
(* processes[i + 1] here.  An Instant is kept as its age (the value of     *)
(* Instant::elapsed()), in whole seconds, saturating one second above the  *)
(* duration it is compared with.  since_pull is a history variable: the    *)
(* time since get_system_processes() was last called, saturating at        *)
(* REFRESH_RATE.  asked is a history variable too: while the kill          *)
(* confirmation is open, the pid of the record that was selected when 'k'  *)
(* opened it.                                                              *)
(***************************************************************************)
EXTENDS Integers, Sequences, FiniteSets, TLC

VARIABLES app, pc, last, since_pull, asked

vars == <<app, pc, last, since_pull, asked>>

\* ------------------------------------------------------------------ bounds
MaxProcs == 2
MaxQuery == 2

\* --------------------------------------------------------------- constants
REFRESH_RATE == 2
MESSAGE_TIMEOUT == 3

None == <<>>
Some(x) == <<x>>

Min(a, b) == IF a < b THEN a ELSE b

\* ----------------------------------------------------------------- strings
Digits == {"0", "1", "2"}

DigitValue(c) == CASE c = "0" -> 0 [] c = "1" -> 1 [] c = "2" -> 2

CharCode(c) ==
    CASE c = "+" -> 43 [] c = "/" -> 47
      [] c = "0" -> 48 [] c = "1" -> 49 [] c = "2" -> 50
      [] c = "N" -> 78
      [] c = "k" -> 107 [] c = "m" -> 109 [] c = "n" -> 110
      [] c = "p" -> 112 [] c = "q" -> 113 [] c = "y" -> 121

char_to_lowercase(c) == IF c = "N" THEN "n" ELSE c

to_lowercase(s) == [i \in 1..Len(s) |-> char_to_lowercase(s[i])]

contains(haystack, needle) ==
    \E i \in 0..(Len(haystack) - Len(needle)) :
        SubSeq(haystack, i + 1, i + Len(needle)) = needle

RECURSIVE DecimalValue(_)
DecimalValue(s) ==
    IF s = <<>> THEN 0
    ELSE 10 * DecimalValue(SubSeq(s, 1, Len(s) - 1)) + DigitValue(s[Len(s)])

\* str::parse::<u32>(): Some(value) or None.  The pids of ProcessUniverse have
\* at most two digits, so the value never overflows a u32.
parse_u32(s) ==
    LET body == IF s # <<>> /\ s[1] = "+" THEN Tail(s) ELSE s
    IN  IF body # <<>> /\ (\A i \in 1..Len(body) : body[i] \in Digits)
        THEN Some(DecimalValue(body))
        ELSE None

unwrap_or(opt, default) == IF opt = None THEN default ELSE opt[1]

\* Ordering as -1 (Less), 0 (Equal), 1 (Greater)
int_cmp(a, b) == IF a < b THEN -1 ELSE IF a > b THEN 1 ELSE 0

RECURSIVE str_cmp(_, _)
str_cmp(a, b) ==
    IF a = <<>> THEN (IF b = <<>> THEN 0 ELSE -1)
    ELSE IF b = <<>> THEN 1
    ELSE IF CharCode(a[1]) # CharCode(b[1])
         THEN int_cmp(CharCode(a[1]), CharCode(b[1]))
         ELSE str_cmp(Tail(a), Tail(b))

\* ------------------------------------------------------- snapshot provider
ProcessInfo(pid, name, memory_mb) ==
    [pid |-> pid, name |-> name, memory_mb |-> memory_mb]

ProcessUniverse ==
    { ProcessInfo(<<"2">>, <<"N", "q">>, 2),
      ProcessInfo(<<"1", "2">>, <<"N", "q">>, 1),
      ProcessInfo(<<"n">>, <<"q">>, 2) }

RECURSIVE SeqsUpTo(_, _)
SeqsUpTo(S, n) ==
    IF n = 0 THEN {<<>>}
    ELSE LET shorter == SeqsUpTo(S, n - 1)
         IN  shorter \cup {Append(s, x) : s \in shorter, x \in S}

\* What one call of the provider may return: the processes of a map keyed by
\* pid, in the map's iteration order.  The monitor itself is always listed.
get_system_processes ==
    { s \in SeqsUpTo(ProcessUniverse, MaxProcs) :
        /\ s # <<>>
        /\ \A i, j \in 1..Len(s) : i # j => s[i].pid # s[j].pid }

\* ------------------------------------------------------------------- App
Indices(n) == [i \in 1..n |-> i - 1]

selected_process(self) ==
    IF self.table_state # None
       /\ self.table_state[1] < Len(self.filtered_processes)
    THEN Some(self.processes[self.filtered_processes[self.table_state[1] + 1] + 1])
    ELSE None

compare(a, b, sort_column, sort_ascending) ==
    LET x == IF sort_ascending THEN a ELSE b
        y == IF sort_ascending THEN b ELSE a
    IN  CASE sort_column = "Pid" ->
               int_cmp(unwrap_or(parse_u32(x.pid), 0), unwrap_or(parse_u32(y.pid), 0))
          [] sort_column = "Name" -> str_cmp(x.name, y.name)
          [] sort_column = "Memory" -> int_cmp(x.memory_mb, y.memory_mb)

\* slice::sort_by is a stable sort
RECURSIVE sort_by(_, _, _)
sort_by(s, sort_column, sort_ascending) ==
    IF s = <<>> THEN <<>>
    ELSE LET front == sort_by(SubSeq(s, 1, Len(s) - 1), sort_column, sort_ascending)
             x == s[Len(s)]
             k == Cardinality({i \in 1..Len(front) :
                       compare(front[i], x, sort_column, sort_ascending) <= 0})
         IN  SubSeq(front, 1, k) \o <<x>> \o SubSeq(front, k + 1, Len(front))

\* sort_processes with the descending branches lost
sort_processes_ascending_only(self) ==
    [self EXCEPT !.processes = sort_by(@, self.sort_column, TRUE)]

sort_processes(self) ==
    [self EXCEPT !.processes = sort_by(@, self.sort_column, self.sort_ascending)]

Matching(processes, query) ==
    { i \in 0..(Len(processes) - 1) :
        \/ contains(to_lowercase(processes[i + 1].name), query)
        \/ contains(to_lowercase(processes[i + 1].pid), query) }

RECURSIVE Increasing(_)
Increasing(S) ==
    IF S = {} THEN <<>>
    ELSE LET m == CHOOSE x \in S : \A y \in S : x <= y
         IN  <<m>> \o Increasing(S \ {m})

\* apply_filters that moves an out-of-range selection back by one row
apply_filters_stepping_back(self) ==
    LET filtered ==
            IF self.search_query = <<>>
            THEN Indices(Len(self.processes))
            ELSE Increasing(Matching(self.processes, to_lowercase(self.search_query)))
        selection ==
            IF self.table_state = None THEN None
            ELSE IF filtered = <<>> THEN None
            ELSE IF self.table_state[1] >= Len(filtered) THEN Some(self.table_state[1] - 1)
            ELSE self.table_state
    IN  [self EXCEPT !.filtered_processes = filtered, !.table_state = selection]

\* apply_filters that moves an out-of-range selection to the first row
apply_filters_clamping_to_first(self) ==
    LET filtered ==
            IF self.search_query = <<>>
            THEN Indices(Len(self.processes))
            ELSE Increasing(Matching(self.processes, to_lowercase(self.search_query)))
        selection ==
            IF self.table_state = None THEN None
            ELSE IF filtered = <<>> THEN None
            ELSE IF self.table_state[1] >= Len(filtered) THEN Some(0)
            ELSE self.table_state
    IN  [self EXCEPT !.filtered_processes = filtered, !.table_state = selection]

apply_filters(self) ==
    LET filtered ==
            IF self.search_query = <<>>
            THEN Indices(Len(self.processes))
            ELSE Increasing(Matching(self.processes, to_lowercase(self.search_query)))
        selection ==
            IF self.table_state = None THEN None
            ELSE IF filtered = <<>> THEN None
            ELSE IF self.table_state[1] >= Len(filtered) THEN Some(Len(filtered) - 1)
            ELSE self.table_state
    IN  [self EXCEPT !.filtered_processes = filtered, !.table_state = selection]

new(snapshot) ==
    LET fresh == [processes |-> snapshot,
                  table_state |-> None,
                  last_refresh |-> 0,
                  sort_column |-> "Memory",
                  sort_ascending |-> FALSE,
                  input_mode |-> "Normal",
                  search_query |-> <<>>,
                  filtered_processes |-> <<>>,
                  message |-> None,
                  message_time |-> None]
    IN  [apply_filters(sort_processes(fresh)) EXCEPT !.table_state = Some(0)]

\* toggle_sort that resets the direction instead of flipping it
toggle_sort_always_ascending(self, column) ==
    apply_filters(sort_processes(
        [self EXCEPT !.sort_column = column, !.sort_ascending = TRUE]))

toggle_sort(self, column) ==
    LET flipped ==
            IF self.sort_column = column
            THEN [self EXCEPT !.sort_ascending = ~@]
            ELSE [self EXCEPT !.sort_column = column, !.sort_ascending = TRUE]
    IN  apply_filters(sort_processes(flipped))

set_message(self, message, color) ==
    [self EXCEPT !.message = Some(<<message, color>>), !.message_time = Some(0)]

\* the pull without the search for the previously selected pid
pull_snapshot_without_restore(self, snapshot) ==
    [apply_filters(sort_processes([self EXCEPT !.processes = snapshot]))
        EXCEPT !.last_refresh = 0]

\* the body of refresh() run when the refresh interval has elapsed
\* a pull that replaces the snapshot and leaves the filtered list as it was
pull_snapshot_replacing_only(self, snapshot) ==
    [self EXCEPT !.processes = sort_by(snapshot, self.sort_column, self.sort_ascending),
                 !.last_refresh = 0]

pull_snapshot(self, snapshot) ==
    LET selected_pid ==
            IF selected_process(self) = None THEN None
            ELSE Some(selected_process(self)[1].pid)
        loaded == apply_filters(sort_processes([self EXCEPT !.processes = snapshot]))
        stamped == [loaded EXCEPT !.last_refresh = 0]
        positions ==
            { index \in 0..(Len(stamped.filtered_processes) - 1) :
                selected_pid # None
                /\ stamped.processes[stamped.filtered_processes[index + 1] + 1].pid
                   = selected_pid[1] }
    IN  IF positions # {}
        THEN [stamped EXCEPT !.table_state =
                 Some(CHOOSE index \in positions :
                          \A other \in positions : index <= other)]
        ELSE stamped

\* the message cleared as soon as its age reaches the timeout
clear_expired_message_at_timeout(self) ==
    IF self.message_time # None /\ self.message_time[1] >= MESSAGE_TIMEOUT
    THEN [self EXCEPT !.message = None, !.message_time = None]
    ELSE self

\* a refresh without the block that expires the message
clear_expired_message_never(self) == self

\* the end of refresh(): clear the message after its timeout
clear_expired_message(self) ==
    IF self.message_time # None /\ self.message_time[1] > MESSAGE_TIMEOUT
    THEN [self EXCEPT !.message = None, !.message_time = None]
    ELSE self

\* a refresh that waits until more than REFRESH_RATE has elapsed
refresh_past_interval(self, snapshot) ==
    clear_expired_message(IF self.last_refresh > REFRESH_RATE
                          THEN pull_snapshot(self, snapshot)
                          ELSE self)

\* a refresh that pulls one second before REFRESH_RATE has elapsed
refresh_one_second_early(self, snapshot) ==
    clear_expired_message(IF self.last_refresh >= REFRESH_RATE - 1
                          THEN pull_snapshot(self, snapshot)
                          ELSE self)

refresh(self, snapshot) ==
    clear_expired_message(IF self.last_refresh >= REFRESH_RATE
                          THEN pull_snapshot(self, snapshot)
                          ELSE self)

\* next that stops at the last row
next_without_wrap(self) ==
    IF self.filtered_processes = <<>> THEN self
    ELSE [self EXCEPT !.table_state =
             IF @ = None THEN Some(0)
             ELSE Some(Min(@[1] + 1, Len(self.filtered_processes) - 1))]

next(self) ==
    IF self.filtered_processes = <<>> THEN self
    ELSE [self EXCEPT !.table_state =
             IF @ = None THEN Some(0)
             ELSE Some((@[1] + 1) % Len(self.filtered_processes))]

previous(self) ==
    IF self.filtered_processes = <<>> THEN self
    ELSE [self EXCEPT !.table_state =
             IF @ = None THEN Some(0)
             ELSE Some((@[1] + Len(self.filtered_processes) - 1)
                          % Len(self.filtered_processes))]

\* ------------------------------------------------------ process terminator
\* Command::output() of the kill command: Err(e) when the command could not
\* be run at all, otherwise Ok(output) carrying the command's exit status,
\* which is non-zero when the OS denied the request or found no such process.
KillResults ==
    { [variant |-> "Ok", status |-> 0, text |-> ""],
      [variant |-> "Ok", status |-> 1, text |-> "Operation not permitted"],
      [variant |-> "Err", status |-> 0, text |-> "No such file or directory"] }

\* ages of last_refresh and message_time beyond which elapsed() compares the
\* same with REFRESH_RATE and with the message timeout
RefreshAgeCap == REFRESH_RATE + 1
MessageAgeCap == MESSAGE_TIMEOUT + 1

\* Instant::now().checked_sub(d), as an age
checked_sub_age(d) == Min(d, RefreshAgeCap)

\* a kill that leaves last_refresh as it was
kill_selected_process_without_backdating(self, kill_result) ==
    LET process == selected_process(self)
        pid == IF process = None THEN 0
               ELSE unwrap_or(parse_u32(process[1].pid), 0)
        done ==
            IF process # None /\ pid > 0
            THEN IF kill_result.variant = "Ok"
                 THEN set_message(self,
                          <<"Process ">> \o process[1].name \o <<" killed">>,
                          "Green")
                 ELSE set_message(self,
                          <<"Failed to kill process: ", kill_result.text>>, "Red")
            ELSE self
    IN  [done EXCEPT !.input_mode = "Normal"]

\* a kill that does not look at the parsed pid
kill_selected_process_without_pid_guard(self, kill_result) ==
    LET process == selected_process(self)
        done ==
            IF process # None
            THEN IF kill_result.variant = "Ok"
                 THEN [set_message(self,
                           <<"Process ">> \o process[1].name \o <<" killed">>,
                           "Green")
                         EXCEPT !.last_refresh = checked_sub_age(REFRESH_RATE + 1)]
                 ELSE set_message(self,
                          <<"Failed to kill process: ", kill_result.text>>, "Red")
            ELSE self
    IN  [done EXCEPT !.input_mode = "Normal"]

kill_selected_process(self, kill_result) ==
    LET process == selected_process(self)
        pid == IF process = None THEN 0
               ELSE unwrap_or(parse_u32(process[1].pid), 0)
        done ==
            IF process # None /\ pid > 0
            THEN IF kill_result.variant = "Ok"
                 THEN [set_message(self,
                           <<"Process ">> \o process[1].name \o <<" killed">>,
                           "Green")
                         EXCEPT !.last_refresh = checked_sub_age(REFRESH_RATE + 1)]
                 ELSE set_message(self,
                          <<"Failed to kill process: ", kill_result.text>>, "Red")
            ELSE self
    IN  [done EXCEPT !.input_mode = "Normal"]

\* the kill command is run exactly when a process is selected and its pid
\* parses to a positive number
TerminatorInvoked(self) ==
    /\ selected_process(self) # None
    /\ unwrap_or(parse_u32(selected_process(self)[1].pid), 0) > 0

\* ----------------------------------------------------------------- run_app
\* key codes delivered by event::read(): the characters and the named keys
CharKeys == {"q", "k", "/", "p", "n", "m", "y", "N", "1"}
NormalKeys == {"q", "Down", "Up", "k", "/", "p", "n", "m", "y"}
SearchKeys == {"Esc", "Enter", "Backspace", "Tab", "q", "N"}
ConfirmKeys == {"y", "n", "q", "Esc"}

\* a Normal mode whose 'k' kills without asking
normal_key_killing_at_once(self, key) ==
    CASE key = "Down" -> next(self)
      [] key = "Up" -> previous(self)
      [] key = "k" ->
             kill_selected_process(self, [variant |-> "Ok", status |-> 0, text |-> ""])
      [] key = "/" -> [self EXCEPT !.input_mode = "Search", !.search_query = <<>>]
      [] key = "p" -> toggle_sort(self, "Pid")
      [] key = "n" -> toggle_sort(self, "Name")
      [] key = "m" -> toggle_sort(self, "Memory")
      [] OTHER -> self

normal_key(self, key) ==
    CASE key = "Down" -> next(self)
      [] key = "Up" -> previous(self)
      [] key = "k" -> [self EXCEPT !.input_mode = "ConfirmKill"]
      [] key = "/" -> [self EXCEPT !.input_mode = "Search", !.search_query = <<>>]
      [] key = "p" -> toggle_sort(self, "Pid")
      [] key = "n" -> toggle_sort(self, "Name")
      [] key = "m" -> toggle_sort(self, "Memory")
      [] OTHER -> self

\* a search whose Enter discards the query as Esc does
search_key_enter_clears(self, key) ==
    CASE key \in {"Esc", "Enter"} ->
             apply_filters([self EXCEPT !.input_mode = "Normal", !.search_query = <<>>])
      [] key = "Backspace" ->
             apply_filters([self EXCEPT !.search_query =
                               IF @ = <<>> THEN @ ELSE SubSeq(@, 1, Len(@) - 1)])
      [] key \in CharKeys ->
             apply_filters([self EXCEPT !.search_query = Append(@, key)])
      [] OTHER -> self

search_key(self, key) ==
    CASE key = "Esc" ->
             apply_filters([self EXCEPT !.input_mode = "Normal", !.search_query = <<>>])
      [] key = "Enter" -> apply_filters([self EXCEPT !.input_mode = "Normal"])
      [] key = "Backspace" ->
             apply_filters([self EXCEPT !.search_query =
                               IF @ = <<>> THEN @ ELSE SubSeq(@, 1, Len(@) - 1)])
      [] key \in CharKeys ->
             apply_filters([self EXCEPT !.search_query = Append(@, key)])
      [] OTHER -> self

\* a confirmation that only 'n' cancels
confirm_kill_key_unless_n(self, key, kill_result) ==
    IF key # "n"
    THEN kill_selected_process(self, kill_result)
    ELSE [self EXCEPT !.input_mode = "Normal"]

confirm_kill_key(self, key, kill_result) ==
    IF key = "y"
    THEN kill_selected_process(self, kill_result)
    ELSE [self EXCEPT !.input_mode = "Normal"]

\* history of the step just taken by the loop (not program state)
Event(op, key, mode, kill, pid, pulled, expired) ==
    [op |-> op, key |-> key, mode |-> mode, kill |-> kill, pid |-> pid,
     pulled |-> pulled, expired |-> expired]

SelectedPid(self) ==
    IF selected_process(self) = None THEN None
    ELSE Some(selected_process(self)[1].pid)

Init ==
    /\ \E snapshot \in get_system_processes : app = new(snapshot)
    /\ pc = "refresh"
    /\ last = Event("new", "", "Normal", None, None, FALSE, FALSE)
    /\ since_pull = 0
    /\ asked = None

\* loop top: app.refresh(), then terminal.draw() of the state it leaves.  The
\* table is drawn with a selection that is None or in range (apply_filters,
\* pull_snapshot, next and previous keep it so), which drawing leaves as it is.
Refresh ==
    /\ pc = "refresh"
    /\ \E snapshot \in (IF app.last_refresh >= REFRESH_RATE
                         THEN get_system_processes ELSE {<<>>}) :
           app' = refresh(app, snapshot)
    /\ pc' = "poll"
    /\ last' = Event("refresh", "", "",  None,
                     IF app.last_refresh >= REFRESH_RATE THEN SelectedPid(app) ELSE None,
                     app.last_refresh >= REFRESH_RATE,
                     app.message_time # None /\ app'.message_time = None)
    /\ since_pull' = IF app.last_refresh >= REFRESH_RATE THEN 0 ELSE since_pull
    /\ UNCHANGED asked

\* time passes while event::poll() waits
Tick ==
    /\ pc = "poll"
    /\ app' = [app EXCEPT !.last_refresh = Min(@ + 1, RefreshAgeCap),
                          !.message_time =
                              IF @ = None THEN None
                              ELSE Some(Min(@[1] + 1, MessageAgeCap))]
    /\ app' # app
    /\ last' = Event("tick", "", "", None, None, FALSE, FALSE)
    /\ since_pull' = Min(since_pull + 1, REFRESH_RATE)
    /\ UNCHANGED asked
    /\ UNCHANGED pc

\* event::poll() returns false
PollTimeout ==
    /\ pc = "poll"
    /\ pc' = "refresh"
    /\ last' = Event("timeout", "", "", None, None, FALSE, FALSE)
    /\ UNCHANGED <<app, since_pull, asked>>

\* a quit key looked at before the mode
Quit_in_any_mode ==
    /\ pc = "poll"
    /\ pc' = "done"
    /\ last' = Event("key", "q", app.input_mode, None, None, FALSE, FALSE)
    /\ UNCHANGED <<app, since_pull, asked>>

Quit ==
    /\ pc = "poll"
    /\ app.input_mode = "Normal"
    /\ pc' = "done"
    /\ last' = Event("key", "q", "Normal", None, None, FALSE, FALSE)
    /\ UNCHANGED <<app, since_pull, asked>>

NormalKey ==
    /\ pc = "poll"
    /\ app.input_mode = "Normal"
    /\ \E key \in NormalKeys \ {"q"} :
           /\ app' = normal_key(app, key)
           /\ last' = Event("key", key, "Normal", None, None, FALSE, FALSE)
           /\ asked' = IF key = "k" THEN SelectedPid(app) ELSE None
    /\ pc' = "refresh"
    /\ UNCHANGED since_pull

SearchKey ==
    /\ pc = "poll"
    /\ app.input_mode = "Search"
    /\ \E key \in SearchKeys :
           /\ key \in CharKeys => Len(app.search_query) < MaxQuery
           /\ app' = search_key(app, key)
           /\ last' = Event("key", key, "Search", None, None, FALSE, FALSE)
    /\ pc' = "refresh"
    /\ UNCHANGED since_pull
    /\ asked' = None

ConfirmKillKey ==
    /\ pc = "poll"
    /\ app.input_mode = "ConfirmKill"
    /\ \E key \in ConfirmKeys :
         \E kill_result \in KillResults :
           /\ app' = confirm_kill_key(app, key, kill_result)
           /\ last' = IF key = "y" /\ TerminatorInvoked(app)
                      THEN Event("key", key, "ConfirmKill", Some(kill_result),
                                 SelectedPid(app), FALSE, FALSE)
                      ELSE Event("key", key, "ConfirmKill", None, None, FALSE, FALSE)
    /\ pc' = "refresh"
    /\ UNCHANGED since_pull
    /\ asked' = None

Next ==
    \/ Refresh
    \/ Tick
    \/ PollTimeout
    \/ Quit
    \/ NormalKey
    \/ SearchKey
    \/ ConfirmKillKey

Spec == Init /\ [][Next]_vars

\* The loop under its scheduling.  refresh() is the first statement of every
\* iteration and returns: under Next a step from "refresh" to "poll" is a
\* Refresh step, enabled whenever pc = "refresh".  event::poll() returns
\* within its 100 ms timeout, with or without a key.  Time passes while it
\* waits.  A key may or may not ever be pressed.
RefreshReturns == pc = "refresh" /\ pc' = "poll"

PollReturns == pc = "poll" /\ pc' = "refresh"

SpecLive ==
    /\ Init /\ [][Next]_vars
    /\ WF_pc(RefreshReturns)
    /\ WF_pc(PollReturns)
    /\ SF_vars(Tick)

\* ------------------------------------------- apply_filters on any input
\* history of a call (not program state): the selection it was given
FilterEvent(selected) == [op |-> "apply_filters", selected |-> selected]

\* apply_filters called twice on a state built from any snapshot, query and
\* selection
InitFilter ==
    /\ \E snapshot \in { x \in SeqsUpTo(ProcessUniverse, MaxProcs) :
                            \A i, j \in 1..Len(x) : i # j => x[i].pid # x[j].pid },
          query \in SeqsUpTo(SearchKeys \cap CharKeys, MaxQuery),
          selected \in {None} \cup {Some(i) : i \in 0..MaxProcs} :
           app = [new(<<>>) EXCEPT !.processes = snapshot,
                                   !.search_query = query,
                                   !.table_state = selected]
    /\ pc = "apply_filters"
    /\ last = FilterEvent(None)
    /\ since_pull = 0
    /\ asked = None

ApplyFiltersCall ==
    /\ pc \in {"apply_filters", "applied_once"}
    /\ app' = apply_filters(app)
    /\ pc' = IF pc = "apply_filters" THEN "applied_once" ELSE "applied_twice"
    /\ last' = FilterEvent(app.table_state)
    /\ UNCHANGED since_pull
    /\ UNCHANGED asked

NextFilter == ApplyFiltersCall

SpecFilter == InitFilter /\ [][NextFilter]_vars

\* ----------------------------------- kill_selected_process on any input
\* the records of ProcessUniverse and one whose pid parses to zero
KillUniverse == ProcessUniverse \cup {ProcessInfo(<<"0">>, <<"q">>, 1)}

InputModes == {"Normal", "Search", "ConfirmKill"}

\* kill_selected_process called once on a state built from any snapshot,
\* query, selection and mode
InitKill ==
    /\ \E snapshot \in { x \in SeqsUpTo(KillUniverse, MaxProcs) :
                            \A i, j \in 1..Len(x) : i # j => x[i].pid # x[j].pid },
          query \in SeqsUpTo(SearchKeys \cap CharKeys, 1),
          selected \in {None} \cup {Some(i) : i \in 0..MaxProcs},
          mode \in InputModes :
           app = [apply_filters([new(<<>>) EXCEPT !.processes = snapshot,
                                                  !.search_query = query])
                     EXCEPT !.table_state = selected, !.input_mode = mode]
    /\ pc = "kill"
    /\ last = Event("new", "", app.input_mode, None, None, FALSE, FALSE)
    /\ since_pull = 0
    /\ asked = None

KillCall ==
    /\ pc = "kill"
    /\ \E kill_result \in KillResults :
           /\ app' = kill_selected_process(app, kill_result)
           /\ last' = IF TerminatorInvoked(app)
                      THEN Event("kill", "", app.input_mode, Some(kill_result),
                                 SelectedPid(app), FALSE, FALSE)
                      ELSE Event("kill", "", app.input_mode, None, None, FALSE, FALSE)
    /\ pc' = "killed"
    /\ UNCHANGED since_pull
    /\ UNCHANGED asked

NextKill == KillCall

SpecKill == InitKill /\ [][NextKill]_vars

\* ------------------------------------------------- refresh on any input
\* one call of refresh() on a state built from any snapshot, sort state,
\* query, selection, mode, age of last_refresh and message
InitRefresh ==
    /\ \E snapshot \in get_system_processes,
          column \in {"Pid", "Name", "Memory"},
          ascending \in BOOLEAN,
          query \in SeqsUpTo(SearchKeys \cap CharKeys, MaxQuery),
          mode \in InputModes,
          age \in 0..RefreshAgeCap,
          message_time \in {None} \cup {Some(a) : a \in 0..MessageAgeCap} :
           LET listed == apply_filters(sort_processes(
                             [new(snapshot) EXCEPT !.sort_column = column,
                                                   !.sort_ascending = ascending,
                                                   !.search_query = query]))
           IN  \E selected \in {None} \cup
                       {Some(i) : i \in 0..(Len(listed.filtered_processes) - 1)} :
                   app = [listed EXCEPT
                             !.table_state = selected,
                             !.input_mode = mode,
                             !.last_refresh = age,
                             !.message = IF message_time = None THEN None
                                         ELSE Some(<<(<<"Failed to kill process: ",
                                                        "No such file or directory">>),
                                                     "Red">>),
                             !.message_time = message_time]
    /\ pc = "refresh"
    /\ last = Event("new", "", app.input_mode, None, None, FALSE, FALSE)
    /\ since_pull = Min(app.last_refresh, REFRESH_RATE)
    /\ asked = None

NextRefresh == Refresh

SpecRefresh == InitRefresh /\ [][NextRefresh]_vars

\* ================================================================== claims
Columns == {"Pid", "Name", "Memory"}

\* the records shown by the table, in order
VisiblePids(self) ==
    [i \in 1..Len(self.filtered_processes) |->
        self.processes[self.filtered_processes[i] + 1].pid]

\* the order the specification gives for a column and a direction
PidValue(p) == IF parse_u32(p.pid) = None THEN 0 ELSE parse_u32(p.pid)[1]

InOrder(a, b, column, ascending) ==
    LET lo == IF ascending THEN a ELSE b
        hi == IF ascending THEN b ELSE a
    IN  CASE column = "Pid" -> PidValue(lo) <= PidValue(hi)
          [] column = "Name" -> str_cmp(lo.name, hi.name) <= 0
          [] column = "Memory" -> lo.memory_mb <= hi.memory_mb

Sorted(processes, column, ascending) ==
    \A i, j \in 1..Len(processes) :
        i < j => InOrder(processes[i], processes[j], column, ascending)

\* the indices the specification gives for a query
ExpectedFilter(processes, query) ==
    Increasing({ i \in 0..(Len(processes) - 1) :
        \/ contains(to_lowercase(processes[i + 1].name), to_lowercase(query))
        \/ contains(to_lowercase(processes[i + 1].pid), to_lowercase(query)) })

\* C1: in every reachable state the selection is None if filtered_processes is
\* empty, and otherwise is Some(i) with 0 <= i < len(filtered_processes).
C1_SelectionInvariant ==
    IF app.filtered_processes = <<>>
    THEN app.table_state = None
    ELSE /\ app.table_state # None
         /\ app.table_state[1] \in 0..(Len(app.filtered_processes) - 1)

\* C2: at every redraw filtered_processes is exactly the increasing sequence
\* of the indices whose name or pid contains search_query case-insensitively.
C2_FilterAgreesWithQueryAtRedraw ==
    pc = "poll" =>
        app.filtered_processes = ExpectedFilter(app.processes, app.search_query)

\* C3: in every reachable state the snapshot is ordered by the active
\* (sort_column, sort_ascending) comparator: Pid by the parsed id with an
\* unparsable id counted as 0, Name case-sensitively, Memory by memory_mb,
\* descending being the inverse order.
C3_SnapshotSorted ==
    Sorted(app.processes, app.sort_column, app.sort_ascending)

\* a pull under the descending Pid order placed the unparsable id last
C3_Witness ==
    /\ last.op = "refresh" /\ last.pulled
    /\ app.sort_column = "Pid" /\ ~app.sort_ascending
    /\ Len(app.processes) = MaxProcs
    /\ parse_u32(app.processes[Len(app.processes)].pid) = None
    /\ PidValue(app.processes[1]) > PidValue(app.processes[2])

SortKeyColumn(key) ==
    CASE key = "p" -> "Pid" [] key = "n" -> "Name" [] key = "m" -> "Memory"

\* C4 as first stated: toggle_sort(column) flips the direction on the current
\* column and otherwise selects column ascending, and from any state in which
\* a sort key can be pressed two calls of toggle_sort(column) give ascending
\* order after the first and descending order after the second.
C4_TwiceAscendingThenDescending ==
    (pc = "poll" /\ app.input_mode = "Normal") =>
        \A column \in Columns :
            LET first == toggle_sort(app, column)
                second == toggle_sort(first, column)
            IN  /\ first.sort_column = column
                /\ first.sort_ascending = (IF app.sort_column = column
                                           THEN ~app.sort_ascending ELSE TRUE)
                /\ first.sort_ascending
                /\ Sorted(first.processes, column, TRUE)
                /\ ~second.sort_ascending
                /\ Sorted(second.processes, column, FALSE)

C4_TwiceLaw ==
    (pc = "poll" /\ app.input_mode = "Normal") =>
        \A column \in Columns :
            LET first == toggle_sort(app, column)
                second == toggle_sort(first, column)
                fresh == app.sort_column # column \/ ~app.sort_ascending
            IN  /\ first.sort_column = column /\ second.sort_column = column
                /\ first.sort_ascending = fresh
                /\ second.sort_ascending = ~fresh
                /\ Sorted(first.processes, column, fresh)
                /\ Sorted(second.processes, column, ~fresh)

C4_StepLaw ==
    (last'.op = "key" /\ last'.mode = "Normal" /\ last'.key \in {"p", "n", "m"}) =>
        LET column == SortKeyColumn(last'.key)
        IN  /\ app'.sort_column = column
            /\ app'.sort_ascending = (IF app.sort_column = column
                                      THEN ~app.sort_ascending ELSE TRUE)
            /\ Sorted(app'.processes, column, app'.sort_ascending)

\* C4 as amended: toggle_sort(column) flips the direction on the current
\* column and otherwise selects column ascending; two calls in a row give
\* ascending then descending order when column was not the current column or
\* the direction was descending, and descending then ascending order when
\* column was the current column in ascending direction.
C4_ToggleLaw == [](C4_TwiceLaw) /\ [][C4_StepLaw]_vars

\* the second of two presses of the Pid sort key left the Pid column descending
C4_Witness ==
    /\ last.op = "key" /\ last.key = "p"
    /\ app.sort_column = "Pid" /\ ~app.sort_ascending
    /\ Len(app.processes) = MaxProcs

\* C5: apply_filters is idempotent: for any snapshot, search_query and
\* selection a second call in a row leaves filtered_processes and the
\* selection exactly as after the first call.
C5_ApplyFiltersIdempotent == [][pc = "applied_once" => app' = app]_vars

\* the second call ran on a state whose selection the first call had clamped
\* to the last row of a proper, non-empty filter result
C5_Witness ==
    /\ pc = "applied_twice"
    /\ app.search_query # <<>>
    /\ app.filtered_processes # <<>>
    /\ Len(app.filtered_processes) < Len(app.processes)
    /\ app.table_state = Some(Len(app.filtered_processes) - 1)

RECURSIVE NextTimes(_, _)
NextTimes(self, n) == IF n = 0 THEN self ELSE NextTimes(next(self), n - 1)

\* C6: in every reachable state whose filtered_processes is non-empty,
\* len(filtered_processes) calls of next() in a row return the selection to
\* the value it had before the first call.
C6_WrapAround ==
    (pc = "poll" /\ app.filtered_processes # <<>>) =>
        NextTimes(app, Len(app.filtered_processes)).table_state = app.table_state

\* C7: when a refresh pulls a snapshot and the pid selected before the pull
\* occurs among the records of the new filtered_processes, the selection
\* after the refresh points to a record with that pid.
C7_SelectionFollowsPid ==
    ( /\ last.op = "refresh" /\ last.pulled /\ last.pid # None
      /\ \E i \in 1..Len(app.filtered_processes) :
             VisiblePids(app)[i] = last.pid[1] )
    => SelectedPid(app) = last.pid

\* a pull after which the selected pid is found on the second row of a
\* table sorted ascending by pid, behind a record with a smaller pid value
C7_Witness ==
    /\ last.op = "refresh" /\ last.pulled /\ last.pid # None
    /\ SelectedPid(app) = last.pid
    /\ app.table_state = Some(1)
    /\ app.sort_column = "Pid" /\ app.sort_ascending
    /\ Len(app.filtered_processes) = MaxProcs

\* C8: in ConfirmKill mode every key other than the confirm key returns the
\* mode to Normal, does not run the kill command and changes nothing else.
C8_CancelHasNoSideEffects ==
    [][ ( /\ pc = "poll" /\ app.input_mode = "ConfirmKill"
          /\ last'.op = "key" /\ last'.key # "y" )
        => ( /\ app' = [app EXCEPT !.input_mode = "Normal"]
             /\ last'.kill = None ) ]_vars

\* the quit key cancelled a confirmation opened on a process that could have
\* been killed
C8_Witness ==
    /\ last.op = "key" /\ last.mode = "ConfirmKill" /\ last.key = "q"
    /\ app.input_mode = "Normal"
    /\ TerminatorInvoked(app)
    /\ app.message = None

\* the terminator reported a failure: the kill command could not be run, or it
\* ran and exited with a failure status
TerminatorFailed(kill_result) ==
    kill_result.variant = "Err" \/ kill_result.status # 0

\* C9: when the kill is confirmed and the terminator reports failure with
\* description D, the message becomes ("Failed to kill process: D", Red),
\* processes, filtered_processes and last_refresh are unchanged and the mode
\* is Normal.
C9_FailureSetsErrorMessage ==
    [][ ( /\ last'.op = "key" /\ last'.kill # None
          /\ TerminatorFailed(last'.kill[1]) )
        => ( /\ app'.message =
                    Some(<<(<<"Failed to kill process: ", last'.kill[1].text>>), "Red">>)
             /\ app'.processes = app.processes
             /\ app'.filtered_processes = app.filtered_processes
             /\ app'.last_refresh = app.last_refresh
             /\ app'.input_mode = "Normal" ) ]_vars

\* C10: a message is still present after every refresh() called while its
\* age does not exceed 3, and the message and its timestamp are both cleared
\* by the first refresh() called when its age exceeds 3, whether or not that
\* call pulled a snapshot.
\* No other step clears a message, and only a kill replaces one.
C10_MessageExpiry ==
    [][ /\ (pc = "refresh" /\ pc' = "poll" /\ app.message # None)
           => ( /\ app.message_time # None
                /\ IF app.message_time[1] <= MESSAGE_TIMEOUT
                   THEN /\ app'.message = app.message
                        /\ app'.message_time = app.message_time
                   ELSE /\ app'.message = None
                        /\ app'.message_time = None )
        /\ (pc # "refresh" /\ app.message # None /\ app'.message # app.message)
           => (last'.kill # None /\ app'.message # None /\ app'.message_time = Some(0))
        /\ (app'.message = None) <=> (app'.message_time = None) ]_vars

\* a refresh() that did not pull a snapshot cleared the message
C10_Witness ==
    /\ last.op = "refresh" /\ last.expired /\ ~last.pulled
    /\ app.message = None /\ app.message_time = None

\* a selection, when there is one, is a row of the table
SelectionInRange ==
    app.table_state # None => app.table_state[1] < Len(app.filtered_processes)

\* filtered holds, in increasing order, exactly the indices of the records
\* whose name or pid contains the query, letter case aside
IsFilterOf(filtered, processes, query) ==
    LET Matches(i) ==
            \/ contains(to_lowercase(processes[i + 1].name), to_lowercase(query))
            \/ contains(to_lowercase(processes[i + 1].pid), to_lowercase(query))
    IN  /\ \A k \in 1..Len(filtered) :
               /\ filtered[k] \in 0..(Len(processes) - 1)
               /\ Matches(filtered[k])
               /\ k > 1 => filtered[k - 1] < filtered[k]
        /\ \A i \in 0..(Len(processes) - 1) :
               Matches(i) => \E k \in 1..Len(filtered) : filtered[k] = i

\* the step just taken ran the kill command, and the command succeeded
KilledSuccessfully(event) ==
    /\ event.op = "key" /\ event.kill # None
    /\ event.kill[1].variant = "Ok" /\ event.kill[1].status = 0

\* C11: a successful kill sets a green message naming the process, leaves
\* the snapshot, the filtered list and the selection as they were, and puts
\* last_refresh further back than REFRESH_RATE (mode back to Normal); the call
\* of refresh() that follows it pulls a snapshot, whatever the time since the
\* pull before.
C11_SuccessfulKillForcesRefresh ==
    [][ /\ ( pc = "poll" /\ KilledSuccessfully(last') )
            => /\ app'.message =
                      Some(<<(<<"Process ">> \o selected_process(app)[1].name
                                \o <<" killed">>), "Green">>)
               /\ app'.message_time = Some(0)
               /\ app'.last_refresh > REFRESH_RATE
               /\ app' = [app EXCEPT !.message = app'.message,
                                     !.message_time = app'.message_time,
                                     !.last_refresh = app'.last_refresh,
                                     !.input_mode = "Normal"]
        /\ ( pc = "refresh" /\ KilledSuccessfully(last) /\ pc' = "poll" )
            => /\ last'.op = "refresh" /\ last'.pulled
               /\ app'.last_refresh = 0
               /\ since_pull' = 0 ]_vars

\* the refresh() that directly follows a kill pulled a snapshot
C11_Witness ==
    /\ pc = "poll" /\ last.op = "refresh" /\ last.pulled
    /\ app.message # None /\ app.message[1][2] = "Green"
    /\ app.message_time = Some(0)
    /\ app.last_refresh = 0

\* nothing is selected, or the selection is not a row of the table, or the
\* selected record's pid is not a positive number
NoKillTarget(self) ==
    \/ self.table_state = None
    \/ self.table_state[1] >= Len(self.filtered_processes)
    \/ LET pid == VisiblePids(self)[self.table_state[1] + 1]
       IN  \/ \E i \in 1..Len(pid) : pid[i] \notin Digits
           \/ pid = <<>>
           \/ DecimalValue(pid) <= 0

\* C12: kill_selected_process always leaves input_mode = Normal; with no
\* selected record, or one whose pid does not parse or parses to a
\* non-positive number, the kill command is not run, no message is set and
\* nothing but the mode changes.
C12_KillWithoutTargetIsSilent ==
    [][ ( pc = "kill" /\ pc' = "killed" )
        => /\ app'.input_mode = "Normal"
           /\ NoKillTarget(app)
               => /\ last'.kill = None
                  /\ app' = [app EXCEPT !.input_mode = "Normal"] ]_vars

\* kill_selected_process returned with the pid "0" selected and no message
C12_Witness ==
    /\ pc = "killed" /\ last.op = "kill" /\ last.kill = None
    /\ SelectedPid(app) = Some(<<"0">>)
    /\ app.message = None /\ app.input_mode = "Normal"

\* the query a key of Search mode leaves
QueryAfter(query, key) ==
    CASE key \in CharKeys -> query \o <<key>>
      [] key = "Backspace" ->
             IF Len(query) = 0 THEN query
             ELSE [i \in 1..(Len(query) - 1) |-> query[i]]
      [] key = "Esc" -> <<>>
      [] OTHER -> query

\* C13: '/' in Normal mode enters Search with an empty query.  In Search
\* mode a character is appended to the query, Backspace removes its last
\* character (none when it is empty), Esc empties it and Enter keeps it; Esc
\* and Enter go back to Normal; after each of these keys the filtered list
\* is the filter of the new query; no key of Search mode changes the
\* snapshot, the sort column and direction, the message or last_refresh.
C13_SearchKeyDispatch ==
    [][ /\ ( /\ pc = "poll" /\ app.input_mode = "Normal"
             /\ last'.op = "key" /\ last'.key = "/" )
            => app' = [app EXCEPT !.input_mode = "Search", !.search_query = <<>>]
        /\ ( pc = "poll" /\ app.input_mode = "Search" /\ last'.op = "key" )
            => /\ app'.search_query = QueryAfter(app.search_query, last'.key)
               /\ app'.input_mode =
                      IF last'.key \in {"Esc", "Enter"} THEN "Normal" ELSE "Search"
               /\ IF last'.key \in CharKeys \cup {"Backspace", "Esc", "Enter"}
                  THEN IsFilterOf(app'.filtered_processes, app'.processes,
                                  app'.search_query)
                  ELSE app' = app
               /\ app' = [app EXCEPT !.search_query = app'.search_query,
                                     !.input_mode = app'.input_mode,
                                     !.filtered_processes = app'.filtered_processes,
                                     !.table_state = app'.table_state] ]_vars

\* Enter left Search mode with the query kept and the filter narrowed by it
C13_Witness ==
    /\ last.op = "key" /\ last.mode = "Search" /\ last.key = "Enter"
    /\ app.input_mode = "Normal" /\ app.search_query # <<>>
    /\ Len(app.filtered_processes) < Len(app.processes)

\* C14: a refresh() called less than REFRESH_RATE after last_refresh pulls
\* nothing and changes nothing, except that it clears a message older than
\* the message timeout; called REFRESH_RATE or more after last_refresh it
\* replaces the snapshot by one snapshot of the provider, sorted by the
\* current column and direction, filters it by the current query and sets
\* last_refresh to now; the sort state, the query and the mode stay.
C14_RefreshGating ==
    [][ ( pc = "refresh" /\ pc' = "poll" )
        => IF app.last_refresh < REFRESH_RATE
           THEN /\ ~last'.pulled
                /\ since_pull' = since_pull
                /\ app' = [app EXCEPT !.message = app'.message,
                                      !.message_time = app'.message_time]
                /\ \/ app'.message = app.message /\ app'.message_time = app.message_time
                   \/ /\ app.message_time # None
                      /\ app.message_time[1] > MESSAGE_TIMEOUT
                      /\ app'.message = None /\ app'.message_time = None
           ELSE /\ last'.pulled
                /\ since_pull' = 0
                /\ app'.last_refresh = 0
                /\ Len(app'.processes) \in 1..MaxProcs
                /\ \A i \in 1..Len(app'.processes) :
                       /\ app'.processes[i] \in ProcessUniverse
                       /\ \A j \in 1..Len(app'.processes) :
                              i # j => app'.processes[i].pid # app'.processes[j].pid
                /\ Sorted(app'.processes, app.sort_column, app.sort_ascending)
                /\ IsFilterOf(app'.filtered_processes, app'.processes,
                              app.search_query)
                /\ app'.sort_column = app.sort_column
                /\ app'.sort_ascending = app.sort_ascending
                /\ app'.search_query = app.search_query
                /\ app'.input_mode = app.input_mode ]_vars

\* a refresh() one second after the pull before it left the state as it was
C14_Witness ==
    /\ pc = "poll" /\ last.op = "refresh" /\ ~last.pulled
    /\ app.last_refresh = 1 /\ since_pull = 1

\* C15: after apply_filters the selection is None when the filtered list is
\* empty; a selection at or past the end of a non-empty filtered list has
\* become the last row; a selection inside it is the one it was.
C15_SelectionReclamp ==
    [][ ( pc \in {"apply_filters", "applied_once"} /\ pc' # pc )
        => LET n == Len(app'.filtered_processes)
               selected == app.table_state
           IN  /\ n = 0 => app'.table_state = None
               /\ ( n > 0 /\ selected # None /\ selected[1] >= n )
                   => app'.table_state = Some(n - 1)
               /\ ( selected # None /\ selected[1] < n )
                   => app'.table_state = selected ]_vars

\* a selection past the end of a list of two rows became its second row
C15_Witness ==
    /\ pc = "applied_once" /\ last.op = "apply_filters"
    /\ Len(app.filtered_processes) = 2
    /\ last.selected = Some(2)
    /\ app.table_state = Some(1)

\* C16: Down and Up in Normal mode change nothing when the filtered list is
\* empty; otherwise they select row 0 when nothing is selected, and rows
\* (i + 1) mod n and (i - 1) mod n when row i is, and change nothing else;
\* previous() undoes a next() from a selected row.
C16_SelectionMovement ==
    [][ ( /\ pc = "poll" /\ app.input_mode = "Normal"
          /\ last'.op = "key" /\ last'.key \in {"Down", "Up"} )
        => LET n == Len(app.filtered_processes)
               selected == app.table_state
               step == IF last'.key = "Down" THEN 1 ELSE -1
           IN  IF n = 0 THEN app' = app
               ELSE /\ app' = [app EXCEPT !.table_state =
                                   IF selected = None THEN Some(0)
                                   ELSE Some((selected[1] + step) % n)]
                    /\ ( last'.key = "Down" /\ selected # None /\ selected[1] < n )
                        => previous(app') = app ]_vars

\* Up moved the selection from the first row to the last of two
C16_Witness ==
    /\ pc = "refresh" /\ last.op = "key" /\ last.key = "Up"
    /\ Len(app.filtered_processes) = 2
    /\ app.table_state = Some(1)

\* the column a sort key of Normal mode stands for
SortKeyOf(key) ==
    CASE key = "p" -> "Pid" [] key = "n" -> "Name" [] key = "m" -> "Memory"

MessageJustSet == last.op = "key" /\ last.kill # None

\* C18: unless the session is quit, refresh() is called again and again,
\* whether or not a key is pressed; so a message is not shown for ever
\* unless kills keep replacing it, and every pull of a snapshot is followed
\* by another.
C18_RefreshKeepsRunning ==
    \/ <>(pc = "done")
    \/ /\ []<><<RefreshReturns>>_pc
       /\ []<>(app.message = None \/ MessageJustSet)
       /\ []<><<RefreshReturns /\ last'.pulled>>_pc

\* refresh() cleared a message in ConfirmKill mode, where no key had been
\* pressed since the mode was entered
C18_Witness ==
    /\ pc = "poll" /\ last.op = "refresh" /\ last.expired
    /\ app.input_mode = "ConfirmKill" /\ app.message = None

\* a call of refresh() that pulled a snapshot: it set last_refresh to now
PullStep ==
    /\ pc = "refresh" /\ pc' = "poll"
    /\ last'.pulled \/ app'.last_refresh < app.last_refresh

\* C19 as stated: a snapshot is pulled REFRESH_RATE or more after the pull
\* before it (the first one after the pull of App::new).
C19_PullsSeparatedByInterval ==
    [][ PullStep => since_pull >= REFRESH_RATE ]_vars

\* C19: a snapshot is pulled REFRESH_RATE or more after the pull before it,
\* unless the call of refresh() is the one that follows a kill whose command
\* was run and returned Ok: that call pulls whatever the time since the
\* pull before.
C19_PullsSeparatedUnlessKilled ==
    [][ PullStep
        => \/ since_pull >= REFRESH_RATE
           \/ /\ last.op = "key" /\ last.kill # None
              /\ last.kill[1].variant = "Ok" ]_vars

\* a pull made because REFRESH_RATE had elapsed: no kill in the last seconds
C19_Witness ==
    /\ pc = "poll" /\ last.op = "refresh" /\ last.pulled
    /\ since_pull = 0
    /\ app.message = None /\ app.input_mode = "Search"

\* C20: the kill command is run only by 'y' in ConfirmKill mode, with the
\* pid of the record selected at that moment, which is a positive number,
\* and the step leaves ConfirmKill mode, so it is run at most once per entry
\* into that mode.  No other step runs it: no other key and no refresh()
\* brings up or replaces a message, the trace every run of the command
\* leaves.
C20_TerminatorOnlyOnConfirm ==
    [][ /\ last'.kill # None
            => /\ pc = "poll" /\ app.input_mode = "ConfirmKill"
               /\ last'.op = "key" /\ last'.key = "y"
               /\ ~NoKillTarget(app)
               /\ last'.pid = Some(VisiblePids(app)[app.table_state[1] + 1])
               /\ app'.input_mode = "Normal"
               /\ app'.message # None /\ app'.message_time = Some(0)
        /\ ( \/ app'.message \notin {app.message, None}
             \/ app'.message_time = Some(0) /\ app.message_time # Some(0) )
            => last'.kill # None ]_vars

\* 'y' ran the kill command on pid 12 and the command could not be run
C20_Witness ==
    /\ pc = "refresh" /\ last.op = "key" /\ last.key = "y"
    /\ last.kill # None /\ last.kill[1].variant = "Err"
    /\ last.pid = Some(<<"1", "2">>)
    /\ app.input_mode = "Normal"

\* C21: the kill command run by 'y' is given the pid of the record that was
\* selected when 'k' opened the confirmation, whatever calls of refresh()
\* came in between.
C21_ConfirmKillsAskedProcess ==
    [][ ( pc = "poll" /\ app.input_mode = "ConfirmKill" /\ last'.kill # None )
        => last'.pid = asked ]_vars

\* C22: in every reachable state the elements of filtered_processes are
\* indices of processes, in strictly increasing order, so that drawing the
\* table reads a record of the snapshot for every row; selected_process is
\* None exactly when nothing is selected or the selection is not a row of
\* the table, and otherwise is a record of the snapshot.
C22_IndexValidity ==
    /\ \A k \in 1..Len(app.filtered_processes) :
           /\ app.filtered_processes[k] \in 0..(Len(app.processes) - 1)
           /\ app.filtered_processes[k] + 1 \in DOMAIN app.processes
           /\ k > 1 => app.filtered_processes[k - 1] < app.filtered_processes[k]
    /\ selected_process(app) = None
           <=> \/ app.table_state = None
               \/ app.table_state[1] >= Len(app.filtered_processes)
    /\ selected_process(app) # None
           => \E i \in 1..Len(app.processes) :
                  selected_process(app)[1] = app.processes[i]

\* a pull has just replaced the snapshot by a single record that is not the
\* one that was selected, and row 0 is selected
C22_Witness ==
    /\ pc = "poll" /\ last.op = "refresh" /\ last.pulled
    /\ last.pid # None /\ SelectedPid(app) # last.pid
    /\ Len(app.processes) = 1
    /\ app.filtered_processes = <<0>> /\ app.table_state = Some(0)

====
